---- MODULE Spec2Model ----
(***************************************************************************)
(* Boot sequencer of main/blink_example_main.c, one boot cycle.            *)
(*                                                                         *)
(* Four execution contexts run interleaved: the sequencer (app_main), the  *)
(* default event loop task that calls wifi_event_handler, the update task  *)
(* (ota_task) and the application task (app_main_task).  The WiFi driver   *)
(* is the environment: it posts events to the event loop.  The delegated   *)
(* calls (nvs, netif, esp_wifi_*, esp_https_ota) return a result chosen    *)
(* nondeterministically.  Allocation failures of xEventGroupCreate and     *)
(* xTaskCreate are not modelled.                                           *)
(***************************************************************************)
EXTENDS Integers, Sequences, FiniteSets, TLC

VARIABLES
    pc,                 \* position of app_main (and of wifi_init inside it)
    sys,                \* "running", "aborted", "restarted" or "panicked"
    ret,                \* app_main: esp_err_t ret
    boot_pin_state,     \* should_enter_boot_mode: int boot_pin_state
    ota_event_group,    \* [state, bits] of the OTA event group
    wifi_event_group,   \* [state, bits] of the WiFi event group
    wifi_bits,          \* wifi_init: EventBits_t bits
    ota_bits,           \* app_main: EventBits_t bits
    timer,              \* ticks left of the sequencer's timed block
    driver,             \* state of the WiFi station driver
    handlers,           \* registered event handler instances
    evq,                \* events posted to the default event loop, in order
    ota_pc,             \* position of ota_task
    ota_ret,            \* ota_task: esp_err_t ret
    app_pc,             \* position of app_main_task
    posted,             \* how many events the driver has posted
    hist                \* what has happened in this boot, in order

vars == <<pc, sys, ret, boot_pin_state, ota_event_group, wifi_event_group,
          wifi_bits, ota_bits, timer, driver, handlers, evq, ota_pc, ota_ret,
          app_pc, posted, hist>>

seqVars  == <<pc, ret, boot_pin_state, wifi_bits, ota_bits, timer>>
wifiVars == <<driver, handlers, evq, posted>>
otaVars  == <<ota_pc, ota_ret>>

----------------------------------------------------------------------------
(* Bounds of the model *)

\* The tick period in ms: one tick of the model is one second.
TickPeriodMs == 1000

\* Largest level the pin read may report (gpio_get_level returns an int).
MaxPinLevel == 2

\* How many events the driver posts in one boot at most.
MaxWifiEvents == 5

----------------------------------------------------------------------------
(* Program constants *)

OTA_SUCCESS_BIT == 1
OTA_FAIL_BIT == 2
WIFI_CONNECTED_BIT == 1
WIFI_FAIL_BIT == 2
WIFI_WAIT_MS == 10000
RESTART_DELAY_MS == 3000

ESP_OK == "ESP_OK"
ESP_FAIL == "ESP_FAIL"
ESP_ERR_NVS_NO_FREE_PAGES == "ESP_ERR_NVS_NO_FREE_PAGES"
ESP_ERR_NVS_NEW_VERSION_FOUND == "ESP_ERR_NVS_NEW_VERSION_FOUND"

\* Results of a delegated call, and of nvs_flash_init.
EspErr == {ESP_OK, ESP_FAIL}
NvsErr == {ESP_OK, ESP_FAIL, ESP_ERR_NVS_NO_FREE_PAGES, ESP_ERR_NVS_NEW_VERSION_FOUND}

WIFI_EVENT == "WIFI_EVENT"
IP_EVENT == "IP_EVENT"
ESP_EVENT_ANY_ID == "ESP_EVENT_ANY_ID"
WIFI_EVENT_STA_START == "WIFI_EVENT_STA_START"
WIFI_EVENT_STA_CONNECTED == "WIFI_EVENT_STA_CONNECTED"
WIFI_EVENT_STA_DISCONNECTED == "WIFI_EVENT_STA_DISCONNECTED"
IP_EVENT_STA_GOT_IP == "IP_EVENT_STA_GOT_IP"

PinLevels == 0..MaxPinLevel

----------------------------------------------------------------------------
(* Event bits *)

RECURSIVE BitAnd(_, _)
BitAnd(a, b) ==
    IF a = 0 \/ b = 0 THEN 0
    ELSE (a % 2) * (b % 2) + 2 * BitAnd(a \div 2, b \div 2)

RECURSIVE BitOr(_, _)
BitOr(a, b) ==
    IF a = 0 THEN b
    ELSE IF b = 0 THEN a
    ELSE (IF a % 2 = 1 \/ b % 2 = 1 THEN 1 ELSE 0) + 2 * BitOr(a \div 2, b \div 2)

pdMS_TO_TICKS(ms) == ms \div TickPeriodMs

NoGroup == [state |-> "null", bits |-> 0]

\* xEventGroupCreate: a group with no bit set.
xEventGroupCreate == [state |-> "live", bits |-> 0]

\* vEventGroupDelete: the handle keeps its value, the group is gone.
vEventGroupDelete(g) == [g EXCEPT !.state = "deleted"]

\* xEventGroupGetBits
xEventGroupGetBits(g) == g.bits

\* Fault variant: the bits are assigned, not or-ed in.
xEventGroupSetBitsAssign(g, b) == [g EXCEPT !.bits = b]

\* The group after xEventGroupSetBits(g, b).
xEventGroupSetBits(g, b) == [g EXCEPT !.bits = BitOr(g.bits, b)]

\* The condition of xEventGroupWaitBits with xWaitForAllBits = pdFALSE.
WaitSatisfied(bits, mask) == BitAnd(bits, mask) # 0

Log(e) == hist' = Append(hist, e)

\* The driver posts event e to the default event loop.
Post(e) == evq' = Append(evq, e) /\ posted' = posted + 1

Count(e) == Cardinality({i \in DOMAIN hist : hist[i] = e})

Happened(e) == \E i \in DOMAIN hist : hist[i] = e

\* Index of the first occurrence of e in hist (0 when there is none).
First(e) == IF Happened(e) THEN CHOOSE i \in DOMAIN hist :
                                   hist[i] = e /\ \A j \in 1..(i-1) : hist[j] # e
            ELSE 0

Running == sys = "running"

----------------------------------------------------------------------------
Init ==
    /\ pc = "nvs_flash_init"
    /\ sys = "running"
    /\ ret = "unset"
    /\ boot_pin_state = -1
    /\ ota_event_group = NoGroup
    /\ wifi_event_group = NoGroup
    /\ wifi_bits = 0
    /\ ota_bits = 0
    /\ timer = 0
    /\ driver = "off"
    /\ handlers = {}
    /\ evq = <<>>
    /\ ota_pc = "none"
    /\ ota_ret = "unset"
    /\ app_pc = "none"
    /\ posted = 0
    /\ hist = <<>>

----------------------------------------------------------------------------
(* app_main: storage initialization and the mode decision *)

\* ESP_ERROR_CHECK(rc): abort unless rc is ESP_OK, else go on at next.
ESP_ERROR_CHECK(rc, next) ==
    IF rc = ESP_OK THEN pc' = next /\ sys' = sys
                   ELSE pc' = pc /\ sys' = "aborted"

\* Fault variant: only the no-free-pages result leads to the erase.
NeedsEraseNoFreePagesOnly(r) == r = ESP_ERR_NVS_NO_FREE_PAGES

\* The condition of the if around the erase.
NeedsErase(r) == r = ESP_ERR_NVS_NO_FREE_PAGES \/ r = ESP_ERR_NVS_NEW_VERSION_FOUND

NvsFlashInit ==
    /\ Running /\ pc = "nvs_flash_init"
    /\ \E r \in NvsErr :
          /\ ret' = r
          /\ pc' = IF NeedsErase(r) THEN "nvs_flash_erase" ELSE "check_ret"
          /\ hist' = hist \o <<"nvs_flash_init", r>>
    /\ UNCHANGED <<sys, boot_pin_state, wifi_bits, ota_bits, timer,
                   ota_event_group, wifi_event_group, wifiVars, otaVars, app_pc>>

NvsFlashErase ==
    /\ Running /\ pc = "nvs_flash_erase"
    /\ \E r \in EspErr : ESP_ERROR_CHECK(r, "nvs_flash_init_again")
    /\ Log("nvs_flash_erase")
    /\ UNCHANGED <<ret, boot_pin_state, wifi_bits, ota_bits, timer,
                   ota_event_group, wifi_event_group, wifiVars, otaVars, app_pc>>

NvsFlashInitAgain ==
    /\ Running /\ pc = "nvs_flash_init_again"
    /\ \E r \in NvsErr : ret' = r /\ hist' = hist \o <<"nvs_flash_init", r>>
    /\ pc' = "check_ret"
    /\ UNCHANGED <<sys, boot_pin_state, wifi_bits, ota_bits, timer,
                   ota_event_group, wifi_event_group, wifiVars, otaVars, app_pc>>

CheckRet ==
    /\ Running /\ pc = "check_ret"
    /\ ESP_ERROR_CHECK(ret, "should_enter_boot_mode")
    /\ Log("check_ret")
    /\ UNCHANGED <<ret, boot_pin_state, wifi_bits, ota_bits, timer,
                   ota_event_group, wifi_event_group, wifiVars, otaVars, app_pc>>

\* Fault variant: update mode for every level but 1.
should_enter_boot_mode_not_high(level) == level # 1

\* Fault variant: the polarity of the pin inverted.
should_enter_boot_mode_inverted(level) == level # 0

\* The value should_enter_boot_mode returns for a sampled level.
should_enter_boot_mode(level) == level = 0

\* The call of should_enter_boot_mode and the branch on its result.
BootModeCheck ==
    /\ Running /\ pc = "should_enter_boot_mode"
    /\ \E level \in PinLevels :
          /\ boot_pin_state' = level
          /\ pc' = IF should_enter_boot_mode(level) THEN "create_ota_group"
                                                    ELSE "create_app_task"
    /\ Log("gpio_get_level")
    /\ UNCHANGED <<sys, ret, wifi_bits, ota_bits, timer,
                   ota_event_group, wifi_event_group, wifiVars, otaVars, app_pc>>

CreateOtaGroup ==
    /\ Running /\ pc = "create_ota_group"
    /\ ota_event_group' = xEventGroupCreate
    /\ pc' = "wifi_init"
    /\ Log("ota_group_created")
    /\ UNCHANGED <<sys, ret, boot_pin_state, wifi_bits, ota_bits, timer,
                   wifi_event_group, wifiVars, otaVars, app_pc>>

----------------------------------------------------------------------------
(* wifi_init *)

CreateWifiGroup ==
    /\ Running /\ pc = "wifi_init"
    /\ wifi_event_group' = xEventGroupCreate
    /\ pc' = "esp_netif_init"
    /\ Log("wifi_group_created")
    /\ UNCHANGED <<sys, ret, boot_pin_state, wifi_bits, ota_bits, timer,
                   ota_event_group, wifiVars, otaVars, app_pc>>

EspNetifInit ==
    /\ Running /\ pc = "esp_netif_init"
    /\ \E r \in EspErr : ESP_ERROR_CHECK(r, "esp_event_loop_create_default")
    /\ Log("esp_netif_init")
    /\ UNCHANGED <<ret, boot_pin_state, wifi_bits, ota_bits, timer,
                   ota_event_group, wifi_event_group, wifiVars, otaVars, app_pc>>

EspEventLoopCreateDefault ==
    /\ Running /\ pc = "esp_event_loop_create_default"
    /\ \E r \in EspErr : ESP_ERROR_CHECK(r, "esp_wifi_init")
    /\ Log("esp_event_loop_create_default")
    /\ UNCHANGED <<ret, boot_pin_state, wifi_bits, ota_bits, timer,
                   ota_event_group, wifi_event_group, wifiVars, otaVars, app_pc>>

EspWifiInit ==
    /\ Running /\ pc = "esp_wifi_init"
    /\ \E r \in EspErr :
          /\ ESP_ERROR_CHECK(r, "register_wifi_event")
          /\ driver' = IF r = ESP_OK THEN "init" ELSE driver
    /\ Log("esp_wifi_init")
    /\ UNCHANGED <<ret, boot_pin_state, wifi_bits, ota_bits, timer,
                   ota_event_group, wifi_event_group, handlers, evq, posted, otaVars,
                   app_pc>>

RegisterWifiEvent ==
    /\ Running /\ pc = "register_wifi_event"
    /\ \E r \in EspErr :
          /\ ESP_ERROR_CHECK(r, "register_ip_event")
          /\ handlers' = IF r = ESP_OK
                           THEN handlers \cup {<<WIFI_EVENT, ESP_EVENT_ANY_ID>>}
                           ELSE handlers
    /\ Log("register_wifi_event")
    /\ UNCHANGED <<ret, boot_pin_state, wifi_bits, ota_bits, timer,
                   ota_event_group, wifi_event_group, driver, evq, posted, otaVars,
                   app_pc>>

RegisterIpEvent ==
    /\ Running /\ pc = "register_ip_event"
    /\ \E r \in EspErr :
          /\ ESP_ERROR_CHECK(r, "esp_wifi_set_mode")
          /\ handlers' = IF r = ESP_OK
                           THEN handlers \cup {<<IP_EVENT, IP_EVENT_STA_GOT_IP>>}
                           ELSE handlers
    /\ Log("register_ip_event")
    /\ UNCHANGED <<ret, boot_pin_state, wifi_bits, ota_bits, timer,
                   ota_event_group, wifi_event_group, driver, evq, posted, otaVars,
                   app_pc>>

EspWifiSetMode ==
    /\ Running /\ pc = "esp_wifi_set_mode"
    /\ \E r \in EspErr : ESP_ERROR_CHECK(r, "esp_wifi_set_config")
    /\ Log("esp_wifi_set_mode")
    /\ UNCHANGED <<ret, boot_pin_state, wifi_bits, ota_bits, timer,
                   ota_event_group, wifi_event_group, wifiVars, otaVars, app_pc>>

EspWifiSetConfig ==
    /\ Running /\ pc = "esp_wifi_set_config"
    /\ \E r \in EspErr : ESP_ERROR_CHECK(r, "esp_wifi_start")
    /\ Log("esp_wifi_set_config")
    /\ UNCHANGED <<ret, boot_pin_state, wifi_bits, ota_bits, timer,
                   ota_event_group, wifi_event_group, wifiVars, otaVars, app_pc>>

\* esp_wifi_start: the driver starts the station and posts WIFI_EVENT_STA_START.
EspWifiStart ==
    /\ Running /\ pc = "esp_wifi_start"
    /\ \E r \in EspErr :
          /\ ESP_ERROR_CHECK(r, "wifi_wait")
          /\ driver' = IF r = ESP_OK THEN "started" ELSE driver
          /\ IF r = ESP_OK THEN Post(<<WIFI_EVENT, WIFI_EVENT_STA_START>>)
                           ELSE UNCHANGED <<evq, posted>>
    /\ Log("esp_wifi_start")
    /\ UNCHANGED <<ret, boot_pin_state, wifi_bits, ota_bits, timer,
                   ota_event_group, wifi_event_group, handlers, otaVars, app_pc>>

\* The bits wifi_init waits for.
WifiWaitMask == BitOr(WIFI_CONNECTED_BIT, WIFI_FAIL_BIT)

\* xEventGroupWaitBits on the WiFi group: return at once when a waited bit
\* is set, else block for pdMS_TO_TICKS(10000) ticks.
WifiWait ==
    /\ Running /\ pc = "wifi_wait"
    /\ IF WaitSatisfied(wifi_event_group.bits, WifiWaitMask)
         THEN /\ wifi_bits' = wifi_event_group.bits
              /\ pc' = "wifi_result"
              /\ timer' = timer
         ELSE /\ wifi_bits' = wifi_bits
              /\ pc' = "wifi_wait_blocked"
              /\ timer' = pdMS_TO_TICKS(WIFI_WAIT_MS)
    /\ Log("wifi_wait")
    /\ UNCHANGED <<sys, ret, boot_pin_state, ota_bits,
                   ota_event_group, wifi_event_group, wifiVars, otaVars, app_pc>>

\* The tick interrupt, while the sequencer is in a timed block.
Tick ==
    /\ Running /\ pc \in {"wifi_wait_blocked", "restart_delay"}
    /\ timer > 0
    /\ timer' = timer - 1
    /\ UNCHANGED <<pc, sys, ret, boot_pin_state, wifi_bits, ota_bits, hist,
                   ota_event_group, wifi_event_group, wifiVars, otaVars, app_pc>>

\* The wait's block time is over: it returns the bits as they are now.
WifiWaitTimeout ==
    /\ Running /\ pc = "wifi_wait_blocked"
    /\ timer = 0
    /\ wifi_bits' = wifi_event_group.bits
    /\ pc' = "wifi_result"
    /\ Log("wifi_wait_timeout")
    /\ UNCHANGED <<sys, ret, boot_pin_state, ota_bits, timer,
                   ota_event_group, wifi_event_group, wifiVars, otaVars, app_pc>>

\* What wifi_init logs for the bits the wait returned.
WifiResult(bits) ==
    IF BitAnd(bits, WIFI_CONNECTED_BIT) # 0 THEN "wifi_connected"
    ELSE IF BitAnd(bits, WIFI_FAIL_BIT) # 0 THEN "wifi_failed"
    ELSE "wifi_timeout"

WifiLogResult ==
    /\ Running /\ pc = "wifi_result"
    /\ pc' = "check_wifi"
    /\ Log(WifiResult(wifi_bits))
    /\ UNCHANGED <<sys, ret, boot_pin_state, wifi_bits, ota_bits, timer,
                   ota_event_group, wifi_event_group, wifiVars, otaVars, app_pc>>

----------------------------------------------------------------------------
(* The default event loop and wifi_event_handler *)

\* Fault variant: the handler connects again after a disconnect.
wifi_event_handler_retry(event_base, event_id) ==
    IF event_base = WIFI_EVENT /\ event_id \in {WIFI_EVENT_STA_START,
                                                 WIFI_EVENT_STA_DISCONNECTED}
      THEN [call |-> "esp_wifi_connect", bit |-> 0]
    ELSE IF event_base = IP_EVENT /\ event_id = IP_EVENT_STA_GOT_IP
      THEN [call |-> "xEventGroupSetBits", bit |-> WIFI_CONNECTED_BIT]
    ELSE [call |-> "none", bit |-> 0]

\* What wifi_event_handler does for an event: the call it makes and the bit.
wifi_event_handler(event_base, event_id) ==
    IF event_base = WIFI_EVENT /\ event_id = WIFI_EVENT_STA_START
      THEN [call |-> "esp_wifi_connect", bit |-> 0]
    ELSE IF event_base = WIFI_EVENT /\ event_id = WIFI_EVENT_STA_DISCONNECTED
      THEN [call |-> "xEventGroupSetBits", bit |-> WIFI_FAIL_BIT]
    ELSE IF event_base = IP_EVENT /\ event_id = IP_EVENT_STA_GOT_IP
      THEN [call |-> "xEventGroupSetBits", bit |-> WIFI_CONNECTED_BIT]
    ELSE [call |-> "none", bit |-> 0]

\* Whether a handler instance is registered for the event.
Registered(e) ==
    \E h \in handlers : h[1] = e[1] /\ (h[2] = ESP_EVENT_ANY_ID \/ h[2] = e[2])

\* esp_wifi_connect: starts an association unless one is under way or made.
esp_wifi_connect(d) == IF d \in {"started", "disconnected"} THEN "connecting" ELSE d

\* xEventGroupSetBits(wifi_event_group, b) called by the handler.  A set bit
\* that satisfies the sequencer's wait unblocks it with the bits as they are
\* now.  On a deleted group the call is a use after free: it goes unnoticed
\* or the system panics.
WifiSetBits(b) ==
    IF wifi_event_group.state = "live"
      THEN LET g == xEventGroupSetBits(wifi_event_group, b) IN
           /\ wifi_event_group' = g
           /\ IF pc = "wifi_wait_blocked" /\ WaitSatisfied(g.bits, WifiWaitMask)
                THEN pc' = "wifi_result" /\ wifi_bits' = g.bits /\ timer' = 0
                ELSE UNCHANGED <<pc, wifi_bits, timer>>
           /\ sys' = sys
           /\ Log(IF b = WIFI_CONNECTED_BIT THEN "set_WIFI_CONNECTED_BIT"
                                            ELSE "set_WIFI_FAIL_BIT")
      ELSE /\ UNCHANGED <<wifi_event_group, pc, wifi_bits, timer>>
           /\ IF wifi_event_group.state = "deleted"
                THEN sys' \in {"running", "panicked"}
                ELSE sys' = "aborted"
           /\ Log("set_on_deleted_wifi_group")

\* The event loop task takes the next event and calls the handler for it.
DispatchEvent ==
    /\ Running /\ evq # <<>>
    /\ evq' = Tail(evq)
    /\ LET e == Head(evq)
           h == IF Registered(e) THEN wifi_event_handler(e[1], e[2])
                                 ELSE [call |-> "none", bit |-> 0]
       IN  CASE h.call = "esp_wifi_connect" ->
                  /\ driver' = esp_wifi_connect(driver)
                  /\ Log("esp_wifi_connect")
                  /\ UNCHANGED <<pc, sys, wifi_bits, timer, wifi_event_group>>
             [] h.call = "xEventGroupSetBits" ->
                  /\ WifiSetBits(h.bit)
                  /\ UNCHANGED driver
             [] OTHER ->
                  UNCHANGED <<pc, sys, wifi_bits, timer, wifi_event_group, driver,
                              hist>>
    /\ UNCHANGED <<ret, boot_pin_state, ota_bits, ota_event_group, handlers,
                   posted, otaVars, app_pc>>

----------------------------------------------------------------------------
(* The WiFi station driver *)

\* The station associates with the access point.
DriverAssociated ==
    /\ Running /\ driver = "connecting" /\ posted < MaxWifiEvents
    /\ driver' = "associated"
    /\ Post(<<WIFI_EVENT, WIFI_EVENT_STA_CONNECTED>>)
    /\ UNCHANGED <<seqVars, sys, ota_event_group, wifi_event_group, handlers,
                   otaVars, app_pc, hist>>

\* The station gets its address.
DriverGotIp ==
    /\ Running /\ driver = "associated" /\ posted < MaxWifiEvents
    /\ driver' = "got_ip"
    /\ Post(<<IP_EVENT, IP_EVENT_STA_GOT_IP>>)
    /\ UNCHANGED <<seqVars, sys, ota_event_group, wifi_event_group, handlers,
                   otaVars, app_pc, hist>>

\* The association fails, or an association made is lost.
DriverDisconnected ==
    /\ Running /\ driver \in {"connecting", "associated", "got_ip"}
    /\ posted < MaxWifiEvents
    /\ driver' = "disconnected"
    /\ Post(<<WIFI_EVENT, WIFI_EVENT_STA_DISCONNECTED>>)
    /\ UNCHANGED <<seqVars, sys, ota_event_group, wifi_event_group, handlers,
                   otaVars, app_pc, hist>>

----------------------------------------------------------------------------
(* app_main: the update attempt *)

\* The condition app_main tests on the WiFi group after wifi_init returned.
WifiIsConnected(g) == BitAnd(xEventGroupGetBits(g), WIFI_CONNECTED_BIT) # 0

CheckWifi ==
    /\ Running /\ pc = "check_wifi"
    /\ IF WifiIsConnected(wifi_event_group)
         THEN pc' = "create_ota_task" /\ Log("wifi_connected_seen")
         ELSE pc' = "delete_ota_group" /\ Log("wifi_not_connected")
    /\ UNCHANGED <<sys, ret, boot_pin_state, wifi_bits, ota_bits, timer,
                   ota_event_group, wifi_event_group, wifiVars, otaVars, app_pc>>

CreateOtaTask ==
    /\ Running /\ pc = "create_ota_task"
    /\ ota_pc' = "esp_https_ota"
    /\ pc' = "ota_wait"
    /\ Log("ota_task_created")
    /\ UNCHANGED <<sys, ret, boot_pin_state, wifi_bits, ota_bits, timer,
                   ota_event_group, wifi_event_group, wifiVars, ota_ret, app_pc>>

\* The bits app_main waits for.
OtaWaitMask == BitOr(OTA_SUCCESS_BIT, OTA_FAIL_BIT)

\* Fault variant: the OTA wait with a block time of 0 ticks.
OtaWaitNoBlock ==
    /\ Running /\ pc = "ota_wait"
    /\ ota_bits' = ota_event_group.bits
    /\ pc' = "ota_result"
    /\ Log("ota_wait")
    /\ UNCHANGED <<sys, ret, boot_pin_state, wifi_bits, timer,
                   ota_event_group, wifi_event_group, wifiVars, otaVars, app_pc>>

\* xEventGroupWaitBits on the OTA group with portMAX_DELAY: return at once
\* when a waited bit is set, else block until one is set.
OtaWait ==
    /\ Running /\ pc = "ota_wait"
    /\ IF WaitSatisfied(ota_event_group.bits, OtaWaitMask)
         THEN ota_bits' = ota_event_group.bits /\ pc' = "ota_result"
         ELSE ota_bits' = ota_bits /\ pc' = "ota_wait_blocked"
    /\ Log("ota_wait")
    /\ UNCHANGED <<sys, ret, boot_pin_state, wifi_bits, timer,
                   ota_event_group, wifi_event_group, wifiVars, otaVars, app_pc>>

\* The branch app_main takes on the bits the OTA wait returned.
OtaBranch(bits) ==
    IF BitAnd(bits, OTA_SUCCESS_BIT) # 0 THEN "restart"
    ELSE IF BitAnd(bits, OTA_FAIL_BIT) # 0 THEN "failed"
    ELSE "neither"

\* On success the sequencer starts the delay before the restart.
OtaResult ==
    /\ Running /\ pc = "ota_result"
    /\ LET b == OtaBranch(ota_bits) IN
         CASE b = "restart" -> /\ pc' = "restart_delay"
                               /\ timer' = pdMS_TO_TICKS(RESTART_DELAY_MS)
                               /\ Log("ota_success_seen")
           [] b = "failed"  -> /\ pc' = "delete_ota_group"
                               /\ timer' = timer
                               /\ Log("ota_fail_seen")
           [] OTHER         -> /\ pc' = "delete_ota_group"
                               /\ timer' = timer
                               /\ Log("ota_nothing_seen")
    /\ UNCHANGED <<sys, ret, boot_pin_state, wifi_bits, ota_bits,
                   ota_event_group, wifi_event_group, wifiVars, otaVars, app_pc>>

\* Fault variant: the delay before the restart returns at any time.
RestartDelayDoneEarly ==
    /\ Running /\ pc = "restart_delay"
    /\ pc' = "esp_restart"
    /\ Log("restart_delay_done")
    /\ UNCHANGED <<sys, ret, boot_pin_state, wifi_bits, ota_bits, timer,
                   ota_event_group, wifi_event_group, wifiVars, otaVars, app_pc>>

\* vTaskDelay(3000 / portTICK_PERIOD_MS) returns when its ticks have passed.
RestartDelayDone ==
    /\ Running /\ pc = "restart_delay"
    /\ timer = 0
    /\ pc' = "esp_restart"
    /\ Log("restart_delay_done")
    /\ UNCHANGED <<sys, ret, boot_pin_state, wifi_bits, ota_bits, timer,
                   ota_event_group, wifi_event_group, wifiVars, otaVars, app_pc>>

\* Fault variant: the restart call returns and app_main goes on.
EspRestartReturns ==
    /\ Running /\ pc = "esp_restart"
    /\ pc' = "delete_ota_group"
    /\ Log("esp_restart")
    /\ UNCHANGED <<sys, ret, boot_pin_state, wifi_bits, ota_bits, timer,
                   ota_event_group, wifi_event_group, wifiVars, otaVars, app_pc>>

EspRestart ==
    /\ Running /\ pc = "esp_restart"
    /\ sys' = "restarted"
    /\ Log("esp_restart")
    /\ UNCHANGED <<pc, ret, boot_pin_state, wifi_bits, ota_bits, timer,
                   ota_event_group, wifi_event_group, wifiVars, otaVars, app_pc>>

DeleteOtaGroup ==
    /\ Running /\ pc = "delete_ota_group"
    /\ ota_event_group' = vEventGroupDelete(ota_event_group)
    /\ pc' = "delete_wifi_group"
    /\ Log("ota_group_deleted")
    /\ UNCHANGED <<sys, ret, boot_pin_state, wifi_bits, ota_bits, timer,
                   wifi_event_group, wifiVars, otaVars, app_pc>>

\* Fault variant: the second deletion names the OTA group again.
DeleteOtaGroupAgain ==
    /\ Running /\ pc = "delete_wifi_group"
    /\ ota_event_group' = vEventGroupDelete(ota_event_group)
    /\ pc' = "create_app_task"
    /\ Log("ota_group_deleted")
    /\ UNCHANGED <<sys, ret, boot_pin_state, wifi_bits, ota_bits, timer,
                   wifi_event_group, wifiVars, otaVars, app_pc>>

DeleteWifiGroup ==
    /\ Running /\ pc = "delete_wifi_group"
    /\ wifi_event_group' = vEventGroupDelete(wifi_event_group)
    /\ pc' = "create_app_task"
    /\ Log("wifi_group_deleted")
    /\ UNCHANGED <<sys, ret, boot_pin_state, wifi_bits, ota_bits, timer,
                   ota_event_group, wifiVars, otaVars, app_pc>>

\* xTaskCreate(&app_main_task, ...), after which app_main returns.
CreateAppTask ==
    /\ Running /\ pc = "create_app_task"
    /\ app_pc' = "start"
    /\ pc' = "done"
    /\ Log("app_task_created")
    /\ UNCHANGED <<sys, ret, boot_pin_state, wifi_bits, ota_bits, timer,
                   ota_event_group, wifi_event_group, wifiVars, otaVars>>

----------------------------------------------------------------------------
(* ota_task *)

\* esp_https_ota returns.
OtaCall ==
    /\ Running /\ ota_pc = "esp_https_ota"
    /\ \E r \in EspErr : ota_ret' = r
    /\ ota_pc' = "signal"
    /\ UNCHANGED <<seqVars, sys, ota_event_group, wifi_event_group, wifiVars, app_pc,
                   hist>>

\* Fault variant: the two outcome bits exchanged.
OtaOutcomeBitInverted(r) == IF r = ESP_OK THEN OTA_FAIL_BIT ELSE OTA_SUCCESS_BIT

\* The bit ota_task sets for the result of esp_https_ota.
OtaOutcomeBit(r) == IF r = ESP_OK THEN OTA_SUCCESS_BIT ELSE OTA_FAIL_BIT

\* xEventGroupSetBits(ota_event_group, ...) called by ota_task; it unblocks
\* the sequencer when it is blocked in the OTA wait.
OtaSignal ==
    /\ Running /\ ota_pc = "signal"
    /\ ota_pc' = "vTaskDelete"
    /\ LET b == OtaOutcomeBit(ota_ret) IN
       IF ota_event_group.state = "live"
         THEN LET g == xEventGroupSetBits(ota_event_group, b) IN
              /\ ota_event_group' = g
              /\ IF pc = "ota_wait_blocked" /\ WaitSatisfied(g.bits, OtaWaitMask)
                   THEN pc' = "ota_result" /\ ota_bits' = g.bits
                   ELSE UNCHANGED <<pc, ota_bits>>
              /\ sys' = sys
              /\ Log(IF b = OTA_SUCCESS_BIT THEN "set_OTA_SUCCESS_BIT"
                     ELSE IF b = OTA_FAIL_BIT THEN "set_OTA_FAIL_BIT"
                     ELSE "set_OTA_bits")
         ELSE /\ UNCHANGED <<ota_event_group, pc, ota_bits>>
              /\ IF ota_event_group.state = "deleted"
                   THEN sys' \in {"running", "panicked"}
                   ELSE sys' = "aborted"
              /\ Log("set_on_deleted_ota_group")
    /\ UNCHANGED <<ret, boot_pin_state, wifi_bits, timer, wifi_event_group,
                   wifiVars, ota_ret, app_pc>>

\* vTaskDelete(NULL)
OtaTaskDelete ==
    /\ Running /\ ota_pc = "vTaskDelete"
    /\ ota_pc' = "deleted"
    /\ UNCHANGED <<seqVars, sys, ota_event_group, wifi_event_group, wifiVars,
                   ota_ret, app_pc, hist>>

----------------------------------------------------------------------------
(* app_main_task *)

AppTaskStart ==
    /\ Running /\ app_pc = "start"
    /\ app_pc' = "heartbeat"
    /\ UNCHANGED <<seqVars, sys, ota_event_group, wifi_event_group, wifiVars,
                   otaVars, hist>>

\* ESP_LOGI(TAG, "Application running normally...")
AppTaskHeartbeat ==
    /\ Running /\ app_pc = "heartbeat"
    /\ app_pc' = "vTaskDelay"
    /\ UNCHANGED <<seqVars, sys, ota_event_group, wifi_event_group, wifiVars,
                   otaVars, hist>>

\* vTaskDelay(5000 / portTICK_PERIOD_MS) returns.
AppTaskDelay ==
    /\ Running /\ app_pc = "vTaskDelay"
    /\ app_pc' = "heartbeat"
    /\ UNCHANGED <<seqVars, sys, ota_event_group, wifi_event_group, wifiVars,
                   otaVars, hist>>

----------------------------------------------------------------------------
Next ==
    \/ NvsFlashInit \/ NvsFlashErase \/ NvsFlashInitAgain \/ CheckRet
    \/ BootModeCheck \/ CreateOtaGroup
    \/ CreateWifiGroup \/ EspNetifInit \/ EspEventLoopCreateDefault
    \/ EspWifiInit \/ RegisterWifiEvent \/ RegisterIpEvent
    \/ EspWifiSetMode \/ EspWifiSetConfig \/ EspWifiStart
    \/ WifiWait \/ Tick \/ WifiWaitTimeout \/ WifiLogResult
    \/ DispatchEvent \/ DriverAssociated \/ DriverGotIp \/ DriverDisconnected
    \/ CheckWifi \/ CreateOtaTask \/ OtaWait \/ OtaResult
    \/ RestartDelayDone \/ EspRestart
    \/ DeleteOtaGroup \/ DeleteWifiGroup \/ CreateAppTask
    \/ OtaCall \/ OtaSignal \/ OtaTaskDelete
    \/ AppTaskStart \/ AppTaskHeartbeat \/ AppTaskDelay

Spec == Init /\ [][Next]_vars

\* The steps of app_main, wifi_init included.
Sequencer ==
    \/ NvsFlashInit \/ NvsFlashErase \/ NvsFlashInitAgain \/ CheckRet
    \/ BootModeCheck \/ CreateOtaGroup
    \/ CreateWifiGroup \/ EspNetifInit \/ EspEventLoopCreateDefault
    \/ EspWifiInit \/ RegisterWifiEvent \/ RegisterIpEvent
    \/ EspWifiSetMode \/ EspWifiSetConfig \/ EspWifiStart
    \/ WifiWait \/ WifiWaitTimeout \/ WifiLogResult
    \/ CheckWifi \/ CreateOtaTask \/ OtaWait \/ OtaResult
    \/ RestartDelayDone \/ EspRestart
    \/ DeleteOtaGroup \/ DeleteWifiGroup \/ CreateAppTask

\* The steps of ota_task.
OtaTask == OtaCall \/ OtaSignal \/ OtaTaskDelete

\* The steps of app_main_task.
AppTask == AppTaskStart \/ AppTaskHeartbeat \/ AppTaskDelay

\* The scheduler runs every ready task, the tick interrupt keeps coming, the
\* event loop task delivers every posted event, and esp_https_ota returns.
\* The driver is free to post its events or not.
FairSpec ==
    /\ Spec
    /\ WF_vars(Sequencer)
    /\ WF_vars(Tick)
    /\ WF_vars(DispatchEvent)
    /\ WF_vars(OtaTask)
    /\ WF_vars(AppTask)

----------------------------------------------------------------------------
(* Properties *)

\* The WiFi wait of wifi_init returned without the connected bit.
WifiWaitEndedUnconnected == Happened("wifi_failed") \/ Happened("wifi_timeout")

\* C1: when the WiFi wait ends without the connected bit (fail bit or
\* timeout), the update task is never launched in this boot.
C1_NoOtaAfterUnconnectedWait ==
    WifiWaitEndedUnconnected => ~Happened("ota_task_created")

\* C2: once the update task is launched the sequencer is past the OTA wait
\* only with exactly one of OTA_SUCCESS_BIT and OTA_FAIL_BIT set, in the bits
\* the wait returned and in the group; while it is blocked no bit is set.
C2_OtaWaitEndsWithOneOutcome ==
    /\ pc = "ota_wait_blocked" => ~WaitSatisfied(ota_event_group.bits, OtaWaitMask)
    /\ (Happened("ota_wait") /\ pc # "ota_wait_blocked") =>
          /\ BitAnd(ota_bits, OtaWaitMask) \in {OTA_SUCCESS_BIT, OTA_FAIL_BIT}
          /\ BitAnd(ota_event_group.bits, OtaWaitMask) \in {OTA_SUCCESS_BIT, OTA_FAIL_BIT}

\* The sequencer blocked in the OTA wait and was released by the failure bit.
C2_Witness ==
    /\ pc = "delete_ota_group"
    /\ Happened("ota_fail_seen")
    /\ First("ota_wait") < First("set_OTA_FAIL_BIT")

\* C3: a restart is issued only after, in this order, the pin was sampled
\* low, the connected bit was seen by app_main, the update task was launched,
\* the success bit was set, and the delay of 3000 ms has run out.
C3_RestartOnlyOnSuccessPath ==
    Happened("esp_restart") =>
        /\ boot_pin_state = 0
        /\ 0 < First("gpio_get_level")
        /\ First("gpio_get_level") < First("wifi_connected_seen")
        /\ First("wifi_connected_seen") < First("ota_task_created")
        /\ First("ota_task_created") < First("set_OTA_SUCCESS_BIT")
        /\ First("set_OTA_SUCCESS_BIT") < First("ota_success_seen")
        /\ First("ota_success_seen") < First("restart_delay_done")
        /\ First("restart_delay_done") < First("esp_restart")
        /\ BitAnd(ota_event_group.bits, OTA_SUCCESS_BIT) # 0
        /\ timer = 0

\* The device has restarted.
C3_Witness == sys = "restarted" /\ Happened("esp_restart")

\* C4: when the WiFi wait ends without a connection or the update task
\* signals failure, no restart is issued in this boot.
C4_NoRestartAfterFailure ==
    (WifiWaitEndedUnconnected \/ Happened("set_OTA_FAIL_BIT")) =>
        ~Happened("esp_restart")

\* C5: the device aborts only in storage initialization.
C5_OnlyStorageFailureHalts ==
    sys = "aborted" => pc \in {"nvs_flash_erase", "check_ret"}

\* The positions of app_main before the pin is sampled.
BeforeSample == {"nvs_flash_init", "nvs_flash_erase", "nvs_flash_init_again",
                 "check_ret", "should_enter_boot_mode"}

\* C6: level 0 selects update mode and every other level normal mode, and
\* the pin is sampled once.
C6_PinLevelDecidesMode ==
    /\ Count("gpio_get_level") <= 1
    /\ pc \notin BeforeSample => Count("gpio_get_level") = 1
    /\ Happened("gpio_get_level") <=> boot_pin_state \in PinLevels
    /\ boot_pin_state = 0 =>
          pc = "create_ota_group" \/ Happened("ota_group_created")
    /\ boot_pin_state \in PinLevels \ {0} =>
          /\ pc \in {"create_app_task", "done"}
          /\ ~Happened("ota_group_created")
          /\ ~Happened("wifi_group_created")

\* Update mode was selected by a low pin and WiFi bring-up has begun.
C6_Witness == boot_pin_state = 0 /\ Happened("wifi_group_created")

\* C7: in normal mode WiFi is never initialized or started, no event group
\* is created or deleted, the update task is never launched, nothing restarts
\* or aborts, and the only step after the decision creates the application
\* task.
C7_NormalModeTouchesNothing ==
    boot_pin_state \in PinLevels \ {0} =>
        /\ driver = "off" /\ handlers = {} /\ evq = <<>> /\ posted = 0
        /\ ota_event_group = NoGroup /\ wifi_event_group = NoGroup
        /\ ota_pc = "none"
        /\ sys = "running"
        /\ LET n == First("gpio_get_level") IN
             SubSeq(hist, n + 1, Len(hist)) \in {<<>>, <<"app_task_created">>}

\* Normal mode has handed off to the application task.
C7_Witness == boot_pin_state = 1 /\ pc = "done" /\ app_pc = "heartbeat"

OtaSets == Count("set_OTA_SUCCESS_BIT") + Count("set_OTA_FAIL_BIT")
             + Count("set_OTA_bits") + Count("set_on_deleted_ota_group")

\* C8: the update task sets one outcome bit and no more, the success bit
\* exactly when esp_https_ota returned ESP_OK, and the two bits are never
\* both set.
C8_OneOutcomeBit ==
    /\ OtaSets <= 1
    /\ BitAnd(ota_event_group.bits, OtaWaitMask) # OtaWaitMask
    /\ ota_pc \in {"none", "esp_https_ota", "signal"} =>
          OtaSets = 0 /\ ota_event_group.bits = 0
    /\ ota_pc \in {"vTaskDelete", "deleted"} =>
          /\ OtaSets = 1
          /\ Happened("set_OTA_SUCCESS_BIT") <=> ota_ret = ESP_OK
          /\ Happened("set_OTA_FAIL_BIT") <=> ota_ret # ESP_OK
          /\ ota_event_group.bits =
                (IF ota_ret = ESP_OK THEN OTA_SUCCESS_BIT ELSE OTA_FAIL_BIT)

\* The update task has signalled success and has deleted itself.
C8_Witness ==
    ota_pc = "deleted" /\ ota_ret = ESP_OK /\ ota_event_group.bits = OTA_SUCCESS_BIT

\* C9: WIFI_CONNECTED_BIT and WIFI_FAIL_BIT are never both set.
C9_WifiBitsExclusive ==
    ~(/\ BitAnd(wifi_event_group.bits, WIFI_CONNECTED_BIT) # 0
      /\ BitAnd(wifi_event_group.bits, WIFI_FAIL_BIT) # 0)

\* C10: the update task is launched at most once, esp_wifi_connect is called
\* at most once and not after a disconnect was handled, and the WiFi wait and
\* the OTA wait are each entered at most once.
C10_NothingRetried ==
    /\ Count("ota_task_created") <= 1
    /\ Count("esp_wifi_connect") <= 1
    /\ Count("wifi_wait") <= 1
    /\ Count("ota_wait") <= 1
    /\ \A i \in DOMAIN hist :
          hist[i] = "set_WIFI_FAIL_BIT" =>
             \A j \in DOMAIN hist : j > i => hist[j] # "esp_wifi_connect"
    /\ driver = "disconnected" => Count("esp_wifi_connect") = 1

\* A disconnect was handled and the boot went on to the application.
C10_Witness ==
    /\ Happened("set_WIFI_FAIL_BIT")
    /\ driver = "disconnected" /\ evq = <<>>
    /\ pc = "done"

\* C11: in update mode the application task is created only after both event
\* groups were deleted, each once; on the restart path neither is deleted.
C11_GroupsDeletedBeforeHandoff ==
    /\ Count("ota_group_deleted") <= 1
    /\ Count("wifi_group_deleted") <= 1
    /\ Happened("ota_group_deleted") <=> ota_event_group.state = "deleted"
    /\ Happened("wifi_group_deleted") <=> wifi_event_group.state = "deleted"
    /\ (boot_pin_state = 0 /\ Happened("app_task_created")) =>
          /\ First("ota_group_deleted") > 0
          /\ First("ota_group_deleted") < First("wifi_group_deleted")
          /\ First("wifi_group_deleted") < First("app_task_created")
          /\ Happened("wifi_not_connected") \/ Happened("ota_fail_seen")
    /\ Happened("ota_success_seen") =>
          /\ ota_event_group.state = "live"
          /\ wifi_event_group.state = "live"

\* The update failed, both groups are deleted and the application runs.
C11_Witness ==
    /\ Happened("ota_fail_seen") /\ Happened("app_task_created")
    /\ ota_event_group.state = "deleted" /\ wifi_event_group.state = "deleted"

\* The result of the first nvs_flash_init, once it has returned.
FirstInitResult == hist[2]

\* C12: the erase and a second nvs_flash_init happen exactly when the first
\* one reported no free pages or a new version; a failed erase or a failed
\* (first or second) initialization aborts before the pin is sampled; there
\* is no third initialization.
C12_StorageHealsOnce ==
    /\ Count("nvs_flash_init") <= 2
    /\ Count("nvs_flash_erase") <= 1
    /\ Len(hist) >= 2 =>
          /\ (pc = "nvs_flash_erase" \/ Happened("nvs_flash_erase")) <=>
                FirstInitResult \in {ESP_ERR_NVS_NO_FREE_PAGES,
                                     ESP_ERR_NVS_NEW_VERSION_FOUND}
          /\ Count("nvs_flash_init") = 2 =>
                Happened("nvs_flash_erase") /\ First("nvs_flash_erase") = 3
    /\ (Happened("nvs_flash_erase") /\ pc = "nvs_flash_erase") => sys = "aborted"
    /\ (Happened("check_ret") /\ ret # ESP_OK) => sys = "aborted" /\ pc = "check_ret"
    /\ (sys = "aborted" /\ pc \in {"nvs_flash_erase", "check_ret"}) =>
          ~Happened("gpio_get_level")
    /\ Happened("gpio_get_level") => ret = ESP_OK

\* Storage reported a new version, was erased and initialized again, and
\* the boot went on to sample the pin.
C12_Witness ==
    /\ Len(hist) >= 2 /\ FirstInitResult = ESP_ERR_NVS_NEW_VERSION_FOUND
    /\ Count("nvs_flash_init") = 2
    /\ Happened("gpio_get_level")

\* C13: a boot whose storage initialization succeeded eventually issues the
\* restart or creates the application task.
C13_BootEndsInRestartOrHandoff ==
    (Happened("check_ret") /\ ret = ESP_OK)
        ~> (Happened("esp_restart") \/ Happened("app_task_created"))

\* C14: once the application task is created nothing stops it.
C14_ApplicationNeverStopped ==
    Happened("app_task_created") => sys = "running"

\* C15: the WiFi group exists before the handlers are registered and WiFi is
\* started, and the handler never sets a bit on the group after it was
\* deleted.
C15_HandlerSetsOnLiveGroupOnly ==
    /\ (handlers # {} \/ driver # "off") => wifi_event_group.state # "null"
    /\ ~Happened("set_on_deleted_wifi_group")

\* C16: the OTA group is created before the update task is launched and is
\* deleted only after the task set its bit and app_main saw it; the task
\* never sets a bit on a missing or deleted group.
C16_OtaGroupOutlivesSignal ==
    /\ ~Happened("set_on_deleted_ota_group")
    /\ ota_pc \in {"esp_https_ota", "signal"} => ota_event_group.state = "live"
    /\ Happened("ota_task_created") =>
          /\ 0 < First("ota_group_created")
          /\ First("ota_group_created") < First("ota_task_created")
    /\ (Happened("ota_task_created") /\ Happened("ota_group_deleted")) =>
          /\ ota_pc \in {"vTaskDelete", "deleted"}
          /\ 0 < First("set_OTA_FAIL_BIT")
          /\ First("set_OTA_FAIL_BIT") < First("ota_fail_seen")
          /\ First("ota_fail_seen") < First("ota_group_deleted")

\* The update task signalled failure and the OTA group was deleted after it.
C16_Witness ==
    /\ Happened("set_OTA_FAIL_BIT")
    /\ ota_event_group.state = "deleted"
    /\ ota_pc = "deleted"

\* C17: the application task is created at most once, never in a boot in
\* which the success bit was seen, and never together with a restart.
C17_RestartExcludesHandoff ==
    /\ Count("app_task_created") <= 1
    /\ Count("esp_restart") <= 1
    /\ Happened("app_task_created") <=> app_pc # "none"
    /\ ~(Happened("ota_success_seen") /\ Happened("app_task_created"))
    /\ ~(Happened("esp_restart") /\ Happened("app_task_created"))
    /\ Happened("ota_success_seen") =>
          pc \in {"restart_delay", "esp_restart"}
    /\ Happened("esp_restart") => sys = "restarted"

\* The update failed and the application task runs, without a restart.
C17_Witness ==
    /\ Happened("ota_fail_seen") /\ app_pc = "vTaskDelay"
    /\ ~Happened("esp_restart")

\* C18: while the WiFi group exists no set bit is cleared, so after a wait
\* that returned the connected bit app_main sees it on its re-read and
\* launches the update task, whatever was handled in between.
C18_WifiBitsMonotonic ==
    /\ wifi_event_group.state = "live" =>
          /\ Happened("set_WIFI_CONNECTED_BIT") =>
                BitAnd(wifi_event_group.bits, WIFI_CONNECTED_BIT) # 0
          /\ Happened("set_WIFI_FAIL_BIT") =>
                BitAnd(wifi_event_group.bits, WIFI_FAIL_BIT) # 0
    /\ Happened("wifi_connected") =>
          /\ BitAnd(wifi_bits, WIFI_CONNECTED_BIT) # 0
          /\ ~Happened("wifi_not_connected")
          /\ pc \notin {"wifi_result", "check_wifi"} => Happened("wifi_connected_seen")
          /\ pc \notin {"wifi_result", "check_wifi", "create_ota_task"} =>
                Happened("ota_task_created")

\* The wait returned connected, a disconnect was handled before the re-read,
\* and the update task was launched all the same.
C18_Witness ==
    /\ Happened("ota_task_created")
    /\ First("wifi_connected") < First("set_WIFI_FAIL_BIT")
    /\ First("set_WIFI_FAIL_BIT") < First("wifi_connected_seen")

====
